---- MODULE Spec2Model ----
(***************************************************************************)
(* Terminal-emulator detection of yazi-adapter (src/emulator.rs):          *)
(* Emulator::detect, Emulator::read_until_da1 and the response parsers,    *)
(* Emulator::read_until_dsr and Emulator::move_lock.                       *)
(*                                                                         *)
(* A byte is a one-character string; the control bytes are written         *)
(* "ESC" (0x1b) and "BEL" (0x07), and "x80" is a byte that is not valid    *)
(* UTF-8 on its own.  A byte string is a sequence of bytes.                *)
(***************************************************************************)
EXTENDS Integers, Sequences, FiniteSets, TLC

VARIABLES
    pc,        \* position of detect(): "start", "probe", "read", "drain", "parse", "done", "panicked";
               \* "off" when detect() is not running
    rawMode,   \* the process-wide terminal mode: TRUE while raw mode is enabled
    released,  \* number of times the deferred disable_raw_mode() has run
    resort,    \* Brand::from_env(): "None" or a brand
    tmux,      \* TMUX.get()
    out,       \* what has been written to stderr, in order
    input,     \* the packets (byte strings) the peer has still to send, in order
    ending,    \* what the peer does once it has sent them: "silent", "eof", "ioerr"
    stdinQ,    \* bytes delivered to standard input and not yet fetched by a reader
    rdbuf,     \* the BufReader's internal buffer of read_until_da1
    buf,       \* buf: Vec<u8> of read_until_da1
    rpc,       \* position of read_until_da1(): "idle", "reading", "ended", "returned";
               \* of read_until_dsr(): "idle", "dsr_reading", "dsr_ended", "dsr_returned"
    readRes,   \* what timeout(2s, read) resolved to: "none", "ok", "elapsed", "failed"
    readEnd,   \* the clock when timeout(2s, read) resolved
    clock,     \* milliseconds since read_until_da1() was called
    wd,        \* the watchdog task: "none", "sleeping", "emitting", "done", "cancelled"
    diag,      \* number of times the user-facing diagnostic has been emitted
    resp,      \* the String read_until_da1() or read_until_dsr() returned
    result,    \* what detect() returned
    mpc,       \* position of move_lock(): "idle", "enter", "cb", "restore", "flush", "done"
    windows,   \* cfg!(windows)
    pos,       \* the (x, y) move_lock() was called with
    forced,    \* number of execute!(buf, ...) of the defensive path that have run
    wbuf,      \* commands queued in the BufWriter and not yet written to stderr
    term,      \* commands of move_lock() that have reached the terminal, in order
    cursor,    \* the cursor of the terminal: "shown" or "hidden"
    flushes,   \* number of times the BufWriter has been flushed
    cbAt,      \* number of commands queued or written when the callback ran, -1 before
    cbres,     \* what the callback returned: "none", "Ok", "Err"
    mres       \* what move_lock() returned: "none", "Ok", "Err", "ErrWrite"

\* the state of detect() and of the readers
dvars == <<pc, rawMode, released, resort, tmux, out, input, ending, stdinQ, rdbuf,
           buf, rpc, readRes, readEnd, clock, wd, diag, resp, result>>

\* the state of move_lock()
mlvars == <<mpc, windows, pos, forced, wbuf, term, cursor, flushes, cbAt, cbres, mres>>

vars == <<dvars, mlvars>>

----------------------------------------------------------------------------
(* Byte strings                                                            *)

\* s[from..] of a byte string, from counted from 0
Drop(s, n) == SubSeq(s, n + 1, Len(s))

StartsWith(s, p) == Len(s) >= Len(p) /\ SubSeq(s, 1, Len(p)) = p

\* slice::ends_with
EndsWith(s, p) == Len(s) >= Len(p) /\ SubSeq(s, Len(s) - Len(p) + 1, Len(s)) = p

\* the 0-based offsets at which p occurs in s
Occurrences(s, p) == {i \in 0..(Len(s) - Len(p)) : SubSeq(s, i + 1, i + Len(p)) = p}

\* str::contains
Contains(s, p) == Occurrences(s, p) # {}

\* str::find: the first offset of p in s, -1 when there is none
Find(s, p) ==
    IF Occurrences(s, p) = {} THEN -1
    ELSE CHOOSE i \in Occurrences(s, p) : \A j \in Occurrences(s, p) : i <= j

\* the offset of the last e in s, -1 when there is none
LastIndex(s, e) ==
    IF \A i \in 1..Len(s) : s[i] # e THEN -1
    ELSE (CHOOSE i \in 1..Len(s) : s[i] = e /\ \A j \in (i + 1)..Len(s) : s[j] # e) - 1

Digits == {"0", "1", "2", "3", "4", "5", "6", "7", "8", "9"}

DigitVal(c) ==
    CASE c = "0" -> 0 [] c = "1" -> 1 [] c = "2" -> 2 [] c = "3" -> 3 [] c = "4" -> 4
      [] c = "5" -> 5 [] c = "6" -> 6 [] c = "7" -> 7 [] c = "8" -> 8 [] c = "9" -> 9

\* iter().take_while(|c| c.is_ascii_digit()): the length of the leading run of digits
RECURSIVE DigitRun(_)
DigitRun(s) ==
    IF s = <<>> \/ Head(s) \notin Digits THEN 0 ELSE 1 + DigitRun(Tail(s))

\* String::from_utf8_lossy: every byte that is not valid UTF-8 becomes U+FFFD,
\* which is the three bytes EF BF BD
RECURSIVE from_utf8_lossy(_)
from_utf8_lossy(s) ==
    IF s = <<>> THEN <<>>
    ELSE (IF Head(s) = "x80" THEN <<"xEF", "xBF", "xBD">> ELSE <<Head(s)>>)
         \o from_utf8_lossy(Tail(s))

\* str::is_char_boundary
is_char_boundary(s, i) ==
    \/ i = 0
    \/ i = Len(s)
    \/ i < Len(s) /\ s[i + 1] \notin {"x80", "xBF", "xBD"}

----------------------------------------------------------------------------
(* Response parser: Emulator::cell_size, Emulator::light_bg, the kind      *)

U16Max == 65535

NoCell == [some |-> FALSE, w |-> 0, h |-> 0]

SomeCell(w, h) == [some |-> TRUE, w |-> w, h |-> h]

\* str::parse::<u16> of a run of ASCII digits: -1 stands for Err (the empty
\* string, or a value that does not fit 16 bits)
RECURSIVE ParseDigits(_, _)
ParseDigits(acc, s) ==
    IF s = <<>> THEN acc
    ELSE IF 10 * acc + DigitVal(Head(s)) > U16Max THEN -1
    ELSE ParseDigits(10 * acc + DigitVal(Head(s)), Tail(s))

parse_u16(s) == IF s = <<>> THEN -1 ELSE ParseDigits(0, s)

CellMarker == <<"ESC", "[", "6", ";">>

\* b.get(i).filter(|c| c == ch) is Some
ByteAtIs(b, i, ch) == i < Len(b) /\ b[i + 1] = ch

\* cell_size with the pair built as (h, w)
cell_size_swapped(r) ==
    IF Find(r, CellMarker) = -1 THEN NoCell
    ELSE LET b  == Drop(r, Find(r, CellMarker) + Len(CellMarker))
             hl == DigitRun(b)
         IN  IF ~ByteAtIs(b, hl, ";") THEN NoCell
             ELSE LET wl == DigitRun(Drop(b, hl + 1))
                  IN  IF ~ByteAtIs(b, hl + 1 + wl, "t") THEN NoCell
                      ELSE LET w == parse_u16(SubSeq(b, hl + 2, hl + 1 + wl))
                               h == parse_u16(SubSeq(b, 1, hl))
                           IN  IF w = -1 \/ h = -1 THEN NoCell ELSE SomeCell(h, w)

cell_size(r) ==
    IF Find(r, CellMarker) = -1 THEN NoCell
    ELSE LET b  == Drop(r, Find(r, CellMarker) + Len(CellMarker))
             hl == DigitRun(b)
         IN  IF ~ByteAtIs(b, hl, ";") THEN NoCell
             ELSE LET wl == DigitRun(Drop(b, hl + 1))
                  IN  IF ~ByteAtIs(b, hl + 1 + wl, "t") THEN NoCell
                      ELSE LET w == parse_u16(SubSeq(b, hl + 2, hl + 1 + wl))
                               h == parse_u16(SubSeq(b, 1, hl))
                           IN  IF w = -1 \/ h = -1 THEN NoCell ELSE SomeCell(w, h)

HexDigits == Digits \cup {"a", "b", "c", "d", "e", "f", "A", "B", "C", "D", "E", "F"}

HexVal(c) ==
    CASE c \in Digits -> DigitVal(c)
      [] c \in {"a", "A"} -> 10 [] c \in {"b", "B"} -> 11 [] c \in {"c", "C"} -> 12
      [] c \in {"d", "D"} -> 13 [] c \in {"e", "E"} -> 14 [] c \in {"f", "F"} -> 15

\* u8::from_str_radix(s, 16) of a two-byte string: -1 stands for Err.  A
\* leading '+' is accepted by from_str_radix.
from_str_radix(s) ==
    IF s[1] = "+" THEN (IF s[2] \in HexDigits THEN HexVal(s[2]) ELSE -1)
    ELSE IF s[1] \in HexDigits /\ s[2] \in HexDigits THEN 16 * HexVal(s[1]) + HexVal(s[2])
    ELSE -1

BgPrefix == <<"]", "1", "1", ";", "r", "g", "b", ":">>

BgMinLen == 14

\* &s[a..b] panics unless both ends are character boundaries
SliceOk(s, a, b) == is_char_boundary(s, a) /\ is_char_boundary(s, b)

\* luma > 0.6, with luma = r * 0.2627 / 256 + g * 0.6780 / 256 + b * 0.0593 / 256,
\* scaled by 256 * 10000
LumaLight(r, g, b) == 2627 * r + 6780 * g + 593 * b > 1536000

\* Emulator::light_bg: "Light" / "Dark" are Ok(true) / Ok(false), "Err" is the
\* error of a channel that does not parse, "Panic" a slice that splits a
\* character.  dbg: the debug! line is enabled, which evaluates &s[..14].
light_bg(r, dbg) ==
    IF Find(r, BgPrefix) = -1 THEN "Dark"
    ELSE LET s == Drop(r, Find(r, BgPrefix) + Len(BgPrefix))
         IN  IF Len(s) < BgMinLen THEN "Dark"
             ELSE IF ~SliceOk(s, 0, 2) THEN "Panic"
             ELSE IF from_str_radix(SubSeq(s, 1, 2)) = -1 THEN "Err"
             ELSE IF ~SliceOk(s, 5, 7) THEN "Panic"
             ELSE IF from_str_radix(SubSeq(s, 6, 7)) = -1 THEN "Err"
             ELSE IF ~SliceOk(s, 10, 12) THEN "Panic"
             ELSE IF from_str_radix(SubSeq(s, 11, 12)) = -1 THEN "Err"
             ELSE IF dbg /\ ~SliceOk(s, 0, BgMinLen) THEN "Panic"
             ELSE IF LumaLight(from_str_radix(SubSeq(s, 1, 2)),
                               from_str_radix(SubSeq(s, 6, 7)),
                               from_str_radix(SubSeq(s, 11, 12)))
                  THEN "Light" ELSE "Dark"

\* Brand::from_csi: the first brand of the table whose signature the response
\* contains, "None" when there is none
Signatures == << <<"Kitty", <<"k", "i", "t", "t", "y">> >>,
                 <<"Foot",  <<"f", "o", "o", "t">> >> >>

Brands == {Signatures[i][1] : i \in 1..Len(Signatures)}

from_csi(r) ==
    IF \A i \in 1..Len(Signatures) : ~Contains(r, Signatures[i][2]) THEN "None"
    ELSE Signatures[CHOOSE i \in 1..Len(Signatures) :
                       /\ Contains(r, Signatures[i][2])
                       /\ \A j \in 1..(i - 1) : ~Contains(r, Signatures[j][2])][1]

KgpAck == <<"ESC", "_", "G", "i", "=", "3", "1", ";", "O", "K">>

SixelMarks == { <<"?", "4", ";">>, <<"?", "4", "c">>, <<";", "4", ";">>, <<";", "4", "c">> }

Left(b) == [tag |-> "Left", brand |-> b, kgp |-> FALSE, sixel |-> FALSE]

Right(k, s) == [tag |-> "Right", brand |-> "None", kgp |-> k, sixel |-> s]

\* Option::or
Or(a, b) == IF a # "None" THEN a ELSE b

\* Kind with the pre-resolved brand tried first: resort.or(Brand::from_csi(&resp))
KindEnvFirst(r, env) ==
    IF Or(env, from_csi(r)) # "None" THEN Left(Or(env, from_csi(r)))
    ELSE Right(Contains(r, KgpAck), \E m \in SixelMarks : Contains(r, m))

\* Kind with only the "?4" forms among the Sixel marks
KindSixelFirstParamOnly(r, env) ==
    IF Or(from_csi(r), env) # "None" THEN Left(Or(from_csi(r), env))
    ELSE Right(Contains(r, KgpAck),
               \E m \in {<<"?", "4", ";">>, <<"?", "4", "c">>} : Contains(r, m))

\* the kind of detect(): Brand::from_csi(&resp).or(resort), else Unknown
Kind(r, env) ==
    IF Or(from_csi(r), env) # "None" THEN Left(Or(from_csi(r), env))
    ELSE Right(Contains(r, KgpAck), \E m \in SixelMarks : Contains(r, m))

NoSnapshot == [tag |-> "None", kind |-> Right(FALSE, FALSE), light |-> FALSE, cell_size |-> NoCell]

\* Err(e) of detect(): why names the call that failed
ErrResult(why) == [NoSnapshot EXCEPT !.tag = why]

\* Ok(Self { kind, light: light_bg(&resp).unwrap_or_default(), cell_size })
Snapshot(r, env, dbg) ==
    [tag |-> "Ok", kind |-> Kind(r, env), light |-> (light_bg(r, dbg) = "Light"),
     cell_size |-> cell_size(r)]

----------------------------------------------------------------------------
(* The probe burst of detect()                                             *)

\* Mux::csi: inside a multiplexer the sequence goes through the passthrough
\* encoder
csi(s) == [seq |-> s, passthrough |-> tmux]

\* Print(s) of a string that is written as it is
plain(s) == [seq |-> s, passthrough |-> FALSE]

KgpProbe == "ESC_Gi=31,s=1,v=1,a=q,t=d,f=24;AAAA ESC\\"

\* kgp_seq with the probe sent whatever Brand::from_env() resolved
kgp_seq_always == <<csi(KgpProbe)>>

\* kgp_seq: Print("") writes nothing
kgp_seq == IF resort = "None" THEN <<csi(KgpProbe)>> ELSE <<>>

\* Burst with each of the four queries given to Mux::csi
BurstAllWrapped ==
    <<plain("SavePosition")>> \o kgp_seq
    \o <<csi("ESC[>q"), csi("ESC[16t"), csi("ESC]11;?BEL"), csi("ESC[0c"),
         plain("RestorePosition")>>

\* Burst with the primary-device-attributes query sent first
BurstDa1First ==
    <<plain("SavePosition"), csi("ESC[0c")>> \o kgp_seq
    \o <<csi("ESC[>q"), plain("ESC[16t"), plain("ESC]11;?BEL"), plain("RestorePosition")>>

\* the commands of execute!(LineWriter::new(stderr()), ...), in order
Burst ==
    <<plain("SavePosition")>> \o kgp_seq
    \o <<csi("ESC[>q"), plain("ESC[16t"), plain("ESC]11;?BEL"), csi("ESC[0c"),
         plain("RestorePosition")>>

----------------------------------------------------------------------------
(* detect(): raw mode and the probe burst                                  *)

\* Leave with disable_raw_mode() called at the end of the success path only,
\* instead of in a scope guard
LeaveWithoutGuard(res) ==
    /\ pc' = "done"
    /\ result' = res
    /\ IF res.tag = "Ok"
       THEN rawMode' = FALSE /\ released' = released + 1
       ELSE UNCHANGED <<rawMode, released>>

\* detect() is left with the value res: the guard of defer! runs
\* disable_raw_mode() on the way out, whatever res is
Leave(res) ==
    /\ pc' = "done"
    /\ result' = res
    /\ rawMode' = FALSE
    /\ released' = released + 1

\* enable_raw_mode() succeeds
EnableOk ==
    /\ pc = "start"
    /\ pc' = "probe"
    /\ rawMode' = TRUE
    /\ UNCHANGED <<released, resort, tmux, out, input, ending, stdinQ, rdbuf, buf, rpc,
                   readRes, readEnd, clock, wd, diag, resp, result>>
    /\ UNCHANGED mlvars

\* EnableErr with the error of enable_raw_mode() dropped (.ok() for ?)
EnableErrIgnored ==
    /\ pc = "start"
    /\ pc' = "probe"
    /\ UNCHANGED <<rawMode, released, resort, tmux, out, input, ending, stdinQ, rdbuf, buf,
                   rpc, readRes, readEnd, clock, wd, diag, resp, result>>
    /\ UNCHANGED mlvars

\* enable_raw_mode()? fails: the terminal mode is untouched and detect returns
EnableErr ==
    /\ pc = "start"
    /\ Leave(ErrResult("ErrRaw"))
    /\ UNCHANGED <<resort, tmux, out, input, ending, stdinQ, rdbuf, buf, rpc,
                   readRes, readEnd, clock, wd, diag, resp>>
    /\ UNCHANGED mlvars

\* execute!(...) writes the whole burst
WriteOk ==
    /\ pc = "probe"
    /\ pc' = "read"
    /\ out' = out \o Burst
    /\ UNCHANGED <<rawMode, released, resort, tmux, input, ending, stdinQ, rdbuf, buf, rpc,
                   readRes, readEnd, clock, wd, diag, resp, result>>
    /\ UNCHANGED mlvars

\* execute!(...)? fails after part of the burst went out
WriteErr ==
    /\ pc = "probe"
    /\ \E k \in 0..(Len(Burst) - 1) : out' = out \o SubSeq(Burst, 1, k)
    /\ Leave(ErrResult("ErrWrite"))
    /\ UNCHANGED <<resort, tmux, input, ending, stdinQ, rdbuf, buf, rpc,
                   readRes, readEnd, clock, wd, diag, resp>>
    /\ UNCHANGED mlvars

----------------------------------------------------------------------------
(* read_until_da1(): the read loop, its 2 s timeout and the 300 ms watchdog *)

WarnDelay == 300

Deadline == 2000

\* the longest step of the clock between two events
TickMs == 2000

MinOf(S) == CHOOSE x \in S : \A y \in S : x <= y

\* Terminator with split for rsplit: what follows the first ESC is looked at
TerminatorAfterFirstEsc(b) ==
    /\ b # <<>>
    /\ b[Len(b)] = "c"
    /\ Find(b, <<"ESC">>) # -1
    /\ StartsWith(Drop(b, Find(b, <<"ESC">>) + 1), <<"[", "?">>)

\* the terminator test of the loop, on the buffer after buf.push(c[0]):
\* c[0] == b'c', the buffer holds an ESC, and what follows the last ESC
\* (rsplitn(2, ESC).next()) starts with "[?"
Terminator(b) ==
    /\ b # <<>>
    /\ b[Len(b)] = "c"
    /\ LastIndex(b, "ESC") # -1
    /\ StartsWith(Drop(b, LastIndex(b, "ESC") + 1), <<"[", "?">>)

\* read_until_da1() is called: the watchdog is spawned and the timeout armed
Da1Start ==
    /\ pc = "read" /\ rpc = "idle"
    /\ rpc' = "reading"
    /\ wd' = "sleeping"
    /\ clock' = 0
    /\ UNCHANGED <<pc, rawMode, released, resort, tmux, out, input, ending, stdinQ, rdbuf,
                   buf, readRes, readEnd, diag, resp, result>>
    /\ UNCHANGED mlvars

\* the peer delivers its next packet to standard input
PeerSend ==
    /\ rpc \in {"reading", "dsr_reading"}
    /\ input # <<>>
    /\ stdinQ' = stdinQ \o Head(input)
    /\ input' = Tail(input)
    /\ UNCHANGED <<pc, rawMode, released, resort, tmux, out, ending, rdbuf, buf, rpc,
                   readRes, readEnd, clock, wd, diag, resp, result>>
    /\ UNCHANGED mlvars

\* stdin.read(&mut c) on an empty BufReader: it fetches every byte that standard
\* input holds (up to its capacity, which no response of the model reaches)
Fill ==
    /\ rpc \in {"reading", "dsr_reading"}
    /\ rdbuf = <<>>
    /\ stdinQ # <<>>
    /\ rdbuf' = stdinQ
    /\ stdinQ' = <<>>
    /\ UNCHANGED <<pc, rawMode, released, resort, tmux, out, input, ending, buf, rpc,
                   readRes, readEnd, clock, wd, diag, resp, result>>
    /\ UNCHANGED mlvars

\* one turn of the loop: a byte leaves the BufReader and is pushed; the loop
\* breaks when the terminator is complete, and the read future resolves Ok(())
ReadByte ==
    /\ rpc = "reading"
    /\ rdbuf # <<>>
    /\ buf' = Append(buf, Head(rdbuf))
    /\ rdbuf' = Tail(rdbuf)
    /\ IF Terminator(buf')
       THEN rpc' = "ended" /\ readRes' = "ok" /\ readEnd' = clock
       ELSE UNCHANGED <<rpc, readRes, readEnd>>
    /\ UNCHANGED <<pc, rawMode, released, resort, tmux, out, input, ending, stdinQ,
                   clock, wd, diag, resp, result>>
    /\ UNCHANGED mlvars

\* stdin.read returns 0 (bail!("unexpected EOF")) or an error (?): the read
\* future resolves Err
ReadFail ==
    /\ rpc = "reading"
    /\ rdbuf = <<>> /\ stdinQ = <<>> /\ input = <<>>
    /\ ending \in {"eof", "ioerr"}
    /\ rpc' = "ended" /\ readRes' = "failed" /\ readEnd' = clock
    /\ UNCHANGED <<pc, rawMode, released, resort, tmux, out, input, ending, stdinQ, rdbuf,
                   buf, clock, wd, diag, resp, result>>
    /\ UNCHANGED mlvars

\* the read awaited without timeout(): no deadline ever ends it
ReadWithoutTimeout ==
    /\ rpc = "reading"
    /\ FALSE
    /\ UNCHANGED vars

\* timeout(Duration::from_secs(2), read): the deadline passes while the loop
\* waits for input
Timeout ==
    /\ rpc = "reading"
    /\ rdbuf = <<>>
    /\ clock >= Deadline
    /\ rpc' = "ended" /\ readRes' = "elapsed" /\ readEnd' = clock
    /\ UNCHANGED <<pc, rawMode, released, resort, tmux, out, input, ending, stdinQ, rdbuf,
                   buf, clock, wd, diag, resp, result>>
    /\ UNCHANGED mlvars

\* the timers that are armed: the deadline of timeout() while the read is
\* awaited, the sleep of the watchdog until it wakes or is aborted
PendingTimers ==
    (IF rpc = "reading" THEN {Deadline} ELSE {})
    \cup (IF wd = "sleeping" THEN {WarnDelay} ELSE {})

\* time passes, up to the next timer that is armed: a timer that is due fires
\* (or is cancelled) before the clock moves on
Tick ==
    /\ rpc \in {"reading", "ended"}
    /\ clock < Deadline
    /\ \A d \in PendingTimers : clock < d
    /\ clock' = MinOf({clock + TickMs, Deadline} \cup PendingTimers)
    /\ UNCHANGED <<pc, rawMode, released, resort, tmux, out, input, ending, stdinQ, rdbuf,
                   buf, rpc, readRes, readEnd, wd, diag, resp, result>>
    /\ UNCHANGED mlvars

\* WatchdogWake without the sleep: the task goes straight to error_to_user()
WatchdogWakeAtOnce ==
    /\ wd = "sleeping"
    /\ wd' = "emitting"
    /\ UNCHANGED <<pc, rawMode, released, resort, tmux, out, input, ending, stdinQ, rdbuf,
                   buf, rpc, readRes, readEnd, clock, diag, resp, result>>
    /\ UNCHANGED mlvars

\* sleep(300 ms) of the watchdog is over: the task goes on to error_to_user(),
\* which has no await left at which an abort could stop it
WatchdogWake ==
    /\ wd = "sleeping"
    /\ clock >= WarnDelay
    /\ wd' = "emitting"
    /\ UNCHANGED <<pc, rawMode, released, resort, tmux, out, input, ending, stdinQ, rdbuf,
                   buf, rpc, readRes, readEnd, clock, diag, resp, result>>
    /\ UNCHANGED mlvars

\* error_to_user() writes the diagnostic to stderr
EmitOk ==
    /\ wd = "emitting"
    /\ wd' = "done"
    /\ diag' = diag + 1
    /\ out' = Append(out, plain("Terminal response timeout"))
    /\ UNCHANGED <<pc, rawMode, released, resort, tmux, input, ending, stdinQ, rdbuf,
                   buf, rpc, readRes, readEnd, clock, resp, result>>
    /\ UNCHANGED mlvars

\* error_to_user() fails to write; .ok() drops the error
EmitErr ==
    /\ wd = "emitting"
    /\ wd' = "done"
    /\ UNCHANGED <<pc, rawMode, released, resort, tmux, out, input, ending, stdinQ, rdbuf,
                   buf, rpc, readRes, readEnd, clock, diag, resp, result>>
    /\ UNCHANGED mlvars

\* Da1Return that gives up the partial buffer when the read did not complete
Da1ReturnDropsPartial ==
    /\ rpc = "ended"
    /\ rpc' = "returned"
    /\ wd' = IF wd = "sleeping" THEN "cancelled" ELSE wd
    /\ resp' = IF readRes = "ok" THEN from_utf8_lossy(buf) ELSE <<>>
    /\ pc' = "drain"
    /\ UNCHANGED <<rawMode, released, resort, tmux, out, input, ending, stdinQ, rdbuf,
                   buf, readRes, readEnd, clock, diag, result>>
    /\ UNCHANGED mlvars

\* after the match on the outcome: h.abort() cancels a watchdog that still
\* sleeps, and the buffer is returned as a String
Da1Return ==
    /\ rpc = "ended"
    /\ rpc' = "returned"
    /\ wd' = IF wd = "sleeping" THEN "cancelled" ELSE wd
    /\ resp' = from_utf8_lossy(buf)
    /\ pc' = "drain"
    /\ UNCHANGED <<rawMode, released, resort, tmux, out, input, ending, stdinQ, rdbuf,
                   buf, readRes, readEnd, clock, diag, result>>
    /\ UNCHANGED mlvars

----------------------------------------------------------------------------
(* detect(): the multiplexer drain and the parse                           *)

\* Mux::tmux_drain() returns Ok(())
DrainOk ==
    /\ pc = "drain"
    /\ pc' = "parse"
    /\ UNCHANGED <<rawMode, released, resort, tmux, out, input, ending, stdinQ, rdbuf,
                   buf, rpc, readRes, readEnd, clock, wd, diag, resp, result>>
    /\ UNCHANGED mlvars

\* Mux::tmux_drain()? fails, which it can only inside a multiplexer
DrainErr ==
    /\ pc = "drain"
    /\ tmux
    /\ Leave(ErrResult("ErrDrain"))
    /\ UNCHANGED <<resort, tmux, out, input, ending, stdinQ, rdbuf,
                   buf, rpc, readRes, readEnd, clock, wd, diag, resp>>
    /\ UNCHANGED mlvars

\* Parse that turns a read that did not complete into an error of detect()
ParseFailsOnDegradedRead ==
    /\ pc = "parse"
    /\ \E dbg \in BOOLEAN :
          /\ light_bg(resp, dbg) # "Panic"
          /\ Leave(IF readRes = "ok" THEN Snapshot(resp, resort, dbg) ELSE ErrResult("ErrRead"))
    /\ UNCHANGED <<resort, tmux, out, input, ending, stdinQ, rdbuf,
                   buf, rpc, readRes, readEnd, clock, wd, diag, resp>>
    /\ UNCHANGED mlvars

\* the snapshot is built and returned
Parse ==
    /\ pc = "parse"
    /\ \E dbg \in BOOLEAN :
          /\ light_bg(resp, dbg) # "Panic"
          /\ Leave(Snapshot(resp, resort, dbg))
    /\ UNCHANGED <<resort, tmux, out, input, ending, stdinQ, rdbuf,
                   buf, rpc, readRes, readEnd, clock, wd, diag, resp>>
    /\ UNCHANGED mlvars

\* light_bg slices inside a character and panics: detect() returns nothing.
\* Whether the guard of defer! runs depends on the build (unwind or abort).
ParsePanic ==
    /\ pc = "parse"
    /\ \E dbg \in BOOLEAN : light_bg(resp, dbg) = "Panic"
    /\ pc' = "panicked"
    /\ \E unwinds \in BOOLEAN :
          IF unwinds THEN rawMode' = FALSE /\ released' = released + 1
          ELSE UNCHANGED <<rawMode, released>>
    /\ UNCHANGED <<resort, tmux, out, input, ending, stdinQ, rdbuf,
                   buf, rpc, readRes, readEnd, clock, wd, diag, resp, result>>
    /\ UNCHANGED mlvars

\* move_lock() is not running
MlIdle ==
    /\ mpc = "idle" /\ windows = FALSE /\ pos = <<0, 0>> /\ forced = 0
    /\ wbuf = <<>> /\ term = <<>> /\ cursor = "hidden" /\ flushes = 0 /\ cbAt = -1
    /\ cbres = "none" /\ mres = "none"

----------------------------------------------------------------------------
(* Responses of the terminal                                               *)

Da1Reply == <<"ESC", "[", "?", "6", "c">>

Da1Sixel == <<"ESC", "[", "?", "6", "2", ";", "4", "c">>

KgpReply == KgpAck \o <<"ESC", "\\">>

CellReply(h, w) == CellMarker \o h \o <<";">> \o w \o <<"t">>

BgReply(ch) ==
    <<"ESC">> \o BgPrefix
    \o <<ch, ch, ch, ch, "/", ch, ch, ch, ch, "/", ch, ch, ch, ch, "ESC", "\\">>

XtVersion(name) == <<"ESC", "P", ">", "|">> \o name \o <<"ESC", "\\">>

\* the packets of a peer that sends the bytes of s one at a time
Singles(s) == [i \in 1..Len(s) |-> <<s[i]>>]

\* the scripts of the peer under which detect() is explored
DetectScripts ==
    { <<>>,
      <<Da1Reply>>,
      <<KgpReply, Da1Reply>>,
      <<CellReply(<<"0">>, <<"0">>), Da1Reply>>,
      <<CellReply(<<"2", "0">>, <<"1", "0">>), BgReply("f"), Da1Sixel>>,
      <<XtVersion(Signatures[1][2]), Da1Reply>>,
      <<BgReply("x80"), Da1Reply>>,
      <<KgpReply \o Da1Reply \o <<"q">> >> }

Endings == {"silent", "eof", "ioerr"}

Init ==
    /\ pc = "start"
    /\ rawMode = FALSE
    /\ released = 0
    /\ resort \in {"None"} \cup Brands
    /\ tmux \in BOOLEAN
    /\ out = <<>>
    /\ input \in DetectScripts
    /\ ending \in Endings
    /\ stdinQ = <<>> /\ rdbuf = <<>> /\ buf = <<>>
    /\ rpc = "idle" /\ readRes = "none" /\ readEnd = 0 /\ clock = 0
    /\ wd = "none" /\ diag = 0
    /\ resp = <<>>
    /\ result = NoSnapshot
    /\ MlIdle

ReadNext ==
    \/ Da1Start \/ PeerSend \/ Fill \/ ReadByte \/ ReadFail \/ Timeout \/ Tick
    \/ WatchdogWake \/ EmitOk \/ EmitErr \/ Da1Return

Next ==
    \/ EnableOk \/ EnableErr \/ WriteOk \/ WriteErr
    \/ ReadNext
    \/ DrainOk \/ DrainErr \/ Parse \/ ParsePanic

Spec == Init /\ [][Next]_vars

----------------------------------------------------------------------------
(* read_until_da1() on its own: every short byte stream, sent one byte at   *)
(* a time or in one packet                                                  *)

ReadAlphabet == {"ESC", "[", "?", "c", "x"}

\* the longest byte stream of ReadScripts
MaxLen == 4

RECURSIVE ByteStrings(_)
ByteStrings(n) ==
    IF n = 0 THEN {<<>>}
    ELSE ByteStrings(n - 1)
         \cup {Append(s, a) : s \in ByteStrings(n - 1), a \in ReadAlphabet}

\* streams that go on after a complete terminator
LongStreams ==
    { Da1Reply \o <<"x">>,
      <<"ESC", "[", "?", "c", "ESC", "[", "?", "c">>,
      <<"ESC", "x", "c", "ESC", "[", "?", "x", "c", "c">> }

ReadStreams == ByteStrings(MaxLen) \cup LongStreams

ReadScripts ==
    {Singles(s) : s \in ReadStreams} \cup {<<s>> : s \in ReadStreams \ {<<>>}}

\* detect() has entered raw mode and written the burst, and calls
\* read_until_da1() with a peer that follows one of the scripts
AtRead(scripts) ==
    /\ pc = "read"
    /\ rawMode = TRUE
    /\ released = 0
    /\ resort = "None"
    /\ tmux = FALSE
    /\ out = Burst
    /\ input \in scripts
    /\ ending \in {"silent", "eof"}
    /\ stdinQ = <<>> /\ rdbuf = <<>> /\ buf = <<>>
    /\ rpc = "idle" /\ readRes = "none" /\ readEnd = 0 /\ clock = 0
    /\ wd = "none" /\ diag = 0
    /\ resp = <<>>
    /\ result = NoSnapshot
    /\ MlIdle

InitRead == AtRead(ReadScripts)

SpecRead == InitRead /\ [][ReadNext]_vars

\* the executor runs a task that can run, a timer that is due fires, and time
\* passes; nothing makes the peer send
MainStep == Da1Start \/ Fill \/ ReadByte \/ ReadFail \/ Timeout \/ Da1Return

WatchdogStep == WatchdogWake \/ EmitOk \/ EmitErr

\* the longest byte stream of FairScripts
MaxFairLen == 3

FairStreams == ByteStrings(MaxFairLen) \cup LongStreams

FairScripts ==
    {Singles(s) : s \in FairStreams} \cup {<<s>> : s \in FairStreams \ {<<>>}}

InitReadFair == AtRead(FairScripts)

SpecReadFair ==
    /\ InitReadFair /\ [][ReadNext]_vars
    /\ WF_vars(MainStep) /\ WF_vars(WatchdogStep) /\ WF_vars(Tick)

----------------------------------------------------------------------------
(* read_until_dsr(): the read loop and its 500 ms timeout                   *)

DsrDeadline == 500

DsrOk == <<"ESC", "[", "0", "n">>

DsrFault == <<"ESC", "[", "3", "n">>

\* DsrTerminator that knows the report ESC[0n only
DsrTerminatorOkOnly(b) ==
    /\ b # <<>>
    /\ b[Len(b)] = "n"
    /\ EndsWith(b, DsrOk)

\* the test of the loop on the buffer after buf.push(c[0]): c[0] == b'n' and
\* the buffer ends with ESC[0n or ESC[3n
DsrTerminator(b) ==
    /\ b # <<>>
    /\ b[Len(b)] = "n"
    /\ (EndsWith(b, DsrOk) \/ EndsWith(b, DsrFault))

\* read_until_dsr() is called: the timeout is armed, no watchdog is spawned
DsrStart ==
    /\ pc = "off" /\ rpc = "idle"
    /\ rpc' = "dsr_reading"
    /\ clock' = 0
    /\ UNCHANGED <<pc, rawMode, released, resort, tmux, out, input, ending, stdinQ, rdbuf,
                   buf, readRes, readEnd, wd, diag, resp, result>>
    /\ UNCHANGED mlvars

\* one turn of the loop
DsrReadByte ==
    /\ rpc = "dsr_reading"
    /\ rdbuf # <<>>
    /\ buf' = Append(buf, Head(rdbuf))
    /\ rdbuf' = Tail(rdbuf)
    /\ IF DsrTerminator(buf')
       THEN rpc' = "dsr_ended" /\ readRes' = "ok" /\ readEnd' = clock
       ELSE UNCHANGED <<rpc, readRes, readEnd>>
    /\ UNCHANGED <<pc, rawMode, released, resort, tmux, out, input, ending, stdinQ,
                   clock, wd, diag, resp, result>>
    /\ UNCHANGED mlvars

\* stdin.read returns 0 (bail!("unexpected EOF")) or an error (?)
DsrReadFail ==
    /\ rpc = "dsr_reading"
    /\ rdbuf = <<>> /\ stdinQ = <<>> /\ input = <<>>
    /\ ending \in {"eof", "ioerr"}
    /\ rpc' = "dsr_ended" /\ readRes' = "failed" /\ readEnd' = clock
    /\ UNCHANGED <<pc, rawMode, released, resort, tmux, out, input, ending, stdinQ, rdbuf,
                   buf, clock, wd, diag, resp, result>>
    /\ UNCHANGED mlvars

\* timeout(Duration::from_millis(500), read): the deadline passes while the
\* loop waits for input
DsrTimeout ==
    /\ rpc = "dsr_reading"
    /\ rdbuf = <<>>
    /\ clock >= DsrDeadline
    /\ rpc' = "dsr_ended" /\ readRes' = "elapsed" /\ readEnd' = clock
    /\ UNCHANGED <<pc, rawMode, released, resort, tmux, out, input, ending, stdinQ, rdbuf,
                   buf, clock, wd, diag, resp, result>>
    /\ UNCHANGED mlvars

\* time passes while the read is awaited, up to the deadline
DsrTick ==
    /\ rpc = "dsr_reading"
    /\ clock < DsrDeadline
    /\ clock' = MinOf({clock + TickMs, DsrDeadline})
    /\ UNCHANGED <<pc, rawMode, released, resort, tmux, out, input, ending, stdinQ, rdbuf,
                   buf, rpc, readRes, readEnd, wd, diag, resp, result>>
    /\ UNCHANGED mlvars

\* after the match on the outcome the buffer is returned as a String
DsrReturn ==
    /\ rpc = "dsr_ended"
    /\ rpc' = "dsr_returned"
    /\ resp' = from_utf8_lossy(buf)
    /\ UNCHANGED <<pc, rawMode, released, resort, tmux, out, input, ending, stdinQ, rdbuf,
                   buf, readRes, readEnd, clock, wd, diag, result>>
    /\ UNCHANGED mlvars

----------------------------------------------------------------------------
(* move_lock(): the cursor is moved to (x, y) for the time of a callback    *)

Cmd(name) == [cmd |-> name, x |-> 0, y |-> 0]

MoveTo(p) == [cmd |-> "MoveTo", x |-> p[1], y |-> p[2]]

\* TMUX.get() || cfg!(windows)
Defensive == tmux \/ windows

\* the execute!(buf, .., MoveTo(x, y), Show) of the defensive path
Forcings == 3

\* the cursor after the terminal has taken cmds: the last Show or Hide decides
ApplyCursor(c, cmds) ==
    LET vis == {i \in 1..Len(cmds) : cmds[i].cmd \in {"Show", "Hide"}}
    IN  IF vis = {} THEN c
        ELSE IF cmds[CHOOSE i \in vis : \A j \in vis : j <= i].cmd = "Show" THEN "shown"
        ELSE "hidden"

\* move_lock() returns Err of a write: the BufWriter is dropped, and its drop
\* writes what it can of the queued commands
MlFail ==
    /\ mpc' = "done"
    /\ mres' = "ErrWrite"
    /\ \E k \in 0..Len(wbuf) :
          /\ term' = term \o SubSeq(wbuf, 1, k)
          /\ cursor' = ApplyCursor(cursor, SubSeq(wbuf, 1, k))
    /\ wbuf' = <<>>

Positions == {<<0, 0>>, <<3, 5>>}

\* move_lock((x, y), cb) is called: BufWriter::new(stderr().lock())
MlCall ==
    /\ mpc = "idle"
    /\ mpc' = "enter"
    /\ pos' \in Positions
    /\ UNCHANGED <<windows, forced, wbuf, term, cursor, flushes, cbAt, cbres, mres>>
    /\ UNCHANGED dvars

\* defensive path: one execute!(buf, [SavePosition,] MoveTo(x, y), Show), which
\* queues the commands and flushes the writer; after the third the thread
\* sleeps 1 ms and the callback is next
MlForce ==
    /\ mpc = "enter" /\ Defensive /\ forced < Forcings
    /\ LET cmds == (IF forced = 0 THEN <<Cmd("SavePosition")>> ELSE <<>>)
                    \o <<MoveTo(pos), Cmd("Show")>>
       IN  /\ term' = term \o wbuf \o cmds
           /\ cursor' = ApplyCursor(cursor, wbuf \o cmds)
    /\ wbuf' = <<>>
    /\ flushes' = flushes + 1
    /\ forced' = forced + 1
    /\ mpc' = IF forced' = Forcings THEN "cb" ELSE "enter"
    /\ UNCHANGED <<windows, pos, cbAt, cbres, mres>>
    /\ UNCHANGED dvars

\* defensive path: an execute!(...)? fails
MlForceErr ==
    /\ mpc = "enter" /\ Defensive /\ forced < Forcings
    /\ MlFail
    /\ UNCHANGED <<windows, pos, forced, flushes, cbAt, cbres>>
    /\ UNCHANGED dvars

\* plain path: queue!(buf, SavePosition, MoveTo(x, y)) into the empty writer
MlQueue ==
    /\ mpc = "enter" /\ ~Defensive
    /\ wbuf' = wbuf \o <<Cmd("SavePosition"), MoveTo(pos)>>
    /\ mpc' = "cb"
    /\ UNCHANGED <<windows, pos, forced, term, cursor, flushes, cbAt, cbres, mres>>
    /\ UNCHANGED dvars

Payloads == { <<>>, <<Cmd("data")>> }

\* cb(&mut buf): the callback queues what it draws and returns Ok or Err; its
\* result is kept, not tested
MlCallback ==
    /\ mpc = "cb"
    /\ cbAt' = Len(term) + Len(wbuf)
    /\ \E payload \in Payloads : wbuf' = wbuf \o payload
    /\ cbres' \in {"Ok", "Err"}
    /\ mpc' = "restore"
    /\ UNCHANGED <<windows, pos, forced, term, cursor, flushes, mres>>
    /\ UNCHANGED dvars

\* MlRestore with the cursor shown again behind the restore
MlRestoreShows ==
    /\ mpc = "restore"
    /\ wbuf' = wbuf \o (IF Defensive
                         THEN <<Cmd("Hide"), Cmd("RestorePosition"), Cmd("Show")>>
                         ELSE <<Cmd("RestorePosition")>>)
    /\ mpc' = "flush"
    /\ UNCHANGED <<windows, pos, forced, term, cursor, flushes, cbAt, cbres, mres>>
    /\ UNCHANGED dvars

\* queue!(buf, Hide, RestorePosition) on the defensive path,
\* queue!(buf, RestorePosition) on the plain one
MlRestore ==
    /\ mpc = "restore"
    /\ wbuf' = wbuf \o (IF Defensive THEN <<Cmd("Hide"), Cmd("RestorePosition")>>
                         ELSE <<Cmd("RestorePosition")>>)
    /\ mpc' = "flush"
    /\ UNCHANGED <<windows, pos, forced, term, cursor, flushes, cbAt, cbres, mres>>
    /\ UNCHANGED dvars

\* queue!(...)? fails: the callback has filled the writer, which must write to
\* make room
MlRestoreErr ==
    /\ mpc = "restore"
    /\ cbAt < Len(term) + Len(wbuf)
    /\ MlFail
    /\ UNCHANGED <<windows, pos, forced, flushes, cbAt, cbres>>
    /\ UNCHANGED dvars

\* MlFlush that returns Ok(..) whatever the callback returned
MlFlushReturnsOk ==
    /\ mpc = "flush"
    /\ term' = term \o wbuf
    /\ cursor' = ApplyCursor(cursor, wbuf)
    /\ wbuf' = <<>>
    /\ flushes' = flushes + 1
    /\ mres' = "Ok"
    /\ mpc' = "done"
    /\ UNCHANGED <<windows, pos, forced, cbAt, cbres>>
    /\ UNCHANGED dvars

\* buf.flush()? succeeds and move_lock() returns the result of the callback
MlFlush ==
    /\ mpc = "flush"
    /\ term' = term \o wbuf
    /\ cursor' = ApplyCursor(cursor, wbuf)
    /\ wbuf' = <<>>
    /\ flushes' = flushes + 1
    /\ mres' = cbres
    /\ mpc' = "done"
    /\ UNCHANGED <<windows, pos, forced, cbAt, cbres>>
    /\ UNCHANGED dvars

\* buf.flush()? fails
MlFlushErr ==
    /\ mpc = "flush"
    /\ MlFail
    /\ UNCHANGED <<windows, pos, forced, flushes, cbAt, cbres>>
    /\ UNCHANGED dvars

\* neither detect() nor a reader is running
DetectOff ==
    /\ pc = "off"
    /\ rawMode = FALSE /\ released = 0
    /\ resort = "None"
    /\ out = <<>>
    /\ input = <<>> /\ ending = "silent"
    /\ stdinQ = <<>> /\ rdbuf = <<>> /\ buf = <<>>
    /\ rpc = "idle" /\ readRes = "none" /\ readEnd = 0 /\ clock = 0
    /\ wd = "none" /\ diag = 0
    /\ resp = <<>>
    /\ result = NoSnapshot

DsrAlphabet == {"ESC", "[", "0", "n", "x"}

\* the longest byte stream of DsrScripts
MaxDsrLen == 4

RECURSIVE DsrStrings(_)
DsrStrings(n) ==
    IF n = 0 THEN {<<>>}
    ELSE DsrStrings(n - 1)
         \cup {Append(s, a) : s \in DsrStrings(n - 1), a \in DsrAlphabet}

\* streams with the second report, and streams that go on after a report
DsrLongStreams ==
    { DsrFault, DsrOk \o <<"x">>, DsrFault \o DsrOk, <<"x80", "n">> \o DsrFault,
      <<"ESC", "[", "3", "ESC", "[", "0", "n", "n">>,
      <<"ESC", "[", "1", "n", "ESC", "[", "3", "n", "ESC", "[", "0", "n">> }

DsrStreams == DsrStrings(MaxDsrLen) \cup DsrLongStreams

DsrScripts ==
    {Singles(s) : s \in DsrStreams} \cup {<<s>> : s \in DsrStreams \ {<<>>}}

\* read_until_dsr() is about to be called, with a peer that follows one of
\* the scripts
InitDsr ==
    /\ pc = "off"
    /\ rawMode = TRUE /\ released = 0
    /\ resort = "None"
    /\ tmux = FALSE
    /\ out = <<>>
    /\ input \in DsrScripts
    /\ ending \in Endings
    /\ stdinQ = <<>> /\ rdbuf = <<>> /\ buf = <<>>
    /\ rpc = "idle" /\ readRes = "none" /\ readEnd = 0 /\ clock = 0
    /\ wd = "none" /\ diag = 0
    /\ resp = <<>>
    /\ result = NoSnapshot
    /\ MlIdle

DsrNext ==
    \/ DsrStart \/ PeerSend \/ Fill \/ DsrReadByte \/ DsrReadFail \/ DsrTimeout
    \/ DsrTick \/ DsrReturn

SpecDsr == InitDsr /\ [][DsrNext]_vars

InitMove ==
    /\ DetectOff
    /\ tmux \in BOOLEAN
    /\ mpc = "idle"
    /\ windows \in BOOLEAN
    /\ pos = <<0, 0>>
    /\ forced = 0
    /\ wbuf = <<>> /\ term = <<>>
    /\ cursor \in {"shown", "hidden"}
    /\ flushes = 0 /\ cbAt = -1
    /\ cbres = "none" /\ mres = "none"

MoveNext ==
    \/ MlCall \/ MlForce \/ MlForceErr \/ MlQueue \/ MlCallback
    \/ MlRestore \/ MlRestoreErr \/ MlFlush \/ MlFlushErr

SpecMove == InitMove /\ [][MoveNext]_vars

----------------------------------------------------------------------------
(* Properties of detect(), under Spec                                      *)

\* C1: on every path on which detect() returns (Ok, raw mode not entered,
\* burst not written, drain failed, read timed out or hit EOF), the guard has
\* run disable_raw_mode() once and the terminal is out of raw mode, the mode
\* it had when detect() was called.
RawModeReleasedOnReturn ==
    pc = "done" => (rawMode = FALSE /\ released = 1)

RawModeReleasedAfterWriteError ==
    pc = "done" /\ result.tag = "ErrWrite" /\ rawMode = FALSE /\ released = 1

\* C2: detect() goes past enable_raw_mode() only with raw mode on; when
\* entering raw mode fails it returns that error and no snapshot, with nothing
\* written to stderr, no byte read, no watchdog spawned and no drain.
RawModeFailureIsFatal ==
    /\ pc \in {"probe", "read", "drain", "parse"} => rawMode
    /\ result.tag = "ErrRaw" =>
          /\ pc = "done"
          /\ result = ErrResult("ErrRaw")
          /\ out = <<>>
          /\ buf = <<>> /\ rdbuf = <<>> /\ stdinQ = <<>>
          /\ rpc = "idle" /\ wd = "none"

RawModeFailureReturned ==
    pc = "done" /\ result.tag = "ErrRaw" /\ out = <<>>

ReadDegraded == readRes \in {"elapsed", "failed"}

EmptySnapshot ==
    [tag |-> "Ok", kind |-> Right(FALSE, FALSE), light |-> FALSE, cell_size |-> NoCell]

\* C3 as claimed: after a read timeout, EOF or I/O failure detect() still
\* returns the snapshot parsed from the bytes read so far.
DegradedReadAlwaysYieldsSnapshot ==
    (pc = "done" /\ ReadDegraded) =>
        result = Snapshot(from_utf8_lossy(buf), resort, FALSE)

\* C3, amended: read_until_da1 returns the bytes read so far as a String, with
\* no error, however the read ended; when detect() returns after a read that
\* timed out or failed, it returns either the error of the multiplexer drain
\* that follows the read or the snapshot parsed from those bytes, and with no
\* byte read and no brand pre-resolved that snapshot is Unknown with both
\* flags false, light = false and no cell size.
DegradedReadYieldsSnapshotOrDrainError ==
    /\ rpc = "returned" => resp = from_utf8_lossy(buf)
    /\ (pc = "done" /\ ReadDegraded) =>
          /\ result.tag \in {"Ok", "ErrDrain"}
          /\ result.tag = "Ok" => result = Snapshot(from_utf8_lossy(buf), resort, FALSE)
          /\ (result.tag = "Ok" /\ buf = <<>> /\ resort = "None") => result = EmptySnapshot

PartialBytesParsed ==
    /\ pc = "done" /\ readRes = "elapsed"
    /\ buf = KgpReply
    /\ result.tag = "Ok" /\ result.kind = Right(TRUE, FALSE)

\* execute!(...) has returned Ok: the whole burst is on stderr
BurstWritten ==
    \/ pc \in {"read", "drain", "parse", "panicked"}
    \/ pc = "done" /\ result.tag \in {"Ok", "ErrDrain"}

\* the sequences written to stderr, in order
Written == [i \in 1..Len(out) |-> out[i].seq]

ProbeWritten == \E i \in 1..Len(out) : out[i].seq = KgpProbe

\* C13: the burst holds the pixel-graphics probe iff no brand was pre-resolved
\* from the environment; with a brand pre-resolved the burst is, between
\* save-cursor and restore-cursor, only the version, cell-size,
\* background-colour and primary-device-attributes queries.
ProbeIffNoBrand ==
    /\ ProbeWritten => resort = "None"
    /\ BurstWritten =>
          /\ ProbeWritten <=> resort = "None"
          /\ resort = "None" => Len(out) >= 7 /\ out[2].seq = KgpProbe
          /\ resort # "None" =>
                /\ Len(out) >= 6
                /\ SubSeq(Written, 1, 6) =
                      <<"SavePosition", "ESC[>q", "ESC[16t", "ESC]11;?BEL", "ESC[0c",
                        "RestorePosition">>

ProbeSkippedForBrand ==
    pc = "done" /\ result.tag = "Ok" /\ resort = "Kitty" /\ ~ProbeWritten /\ Len(out) = 6

FourQueries == {"ESC[>q", "ESC[16t", "ESC]11;?BEL", "ESC[0c"}

\* C14 as claimed: inside a multiplexer each of the four queries goes through
\* the passthrough encoder; none of the four is written unwrapped.
AllQueriesWrapped ==
    tmux => \A i \in 1..Len(out) : out[i].seq \in FourQueries => out[i].passthrough

\* C14, amended: inside a multiplexer the version query ESC[>q and the
\* primary-device-attributes query ESC[0c (and the pixel-graphics probe, when
\* it is sent) go through the passthrough encoder; the cell-size query ESC[16t
\* and the background-colour query ESC]11;?BEL are written as they are.
\* Outside a multiplexer nothing is wrapped.
OnlyCsiQueriesWrapped ==
    \A i \in 1..Len(out) :
        /\ out[i].seq \in {"ESC[>q", "ESC[0c", KgpProbe} => (out[i].passthrough <=> tmux)
        /\ out[i].seq \in {"ESC[16t", "ESC]11;?BEL"} => ~out[i].passthrough

WrappedAndUnwrappedInTmux ==
    /\ tmux /\ BurstWritten
    /\ \E i \in 1..Len(out) : out[i] = [seq |-> "ESC[0c", passthrough |-> TRUE]
    /\ \E i \in 1..Len(out) : out[i] = [seq |-> "ESC[16t", passthrough |-> FALSE]

\* C18 as claimed: detect() returns an error only when entering raw mode or
\* writing the burst fails; a read timeout, EOF, a malformed response and the
\* multiplexer drain leave it returning a snapshot.
ErrorOnlyFromRawModeOrWrite ==
    /\ pc = "done" => result.tag \in {"Ok", "ErrRaw", "ErrWrite"}
    /\ (pc = "done" /\ rpc = "returned") => result.tag = "Ok"

\* C18, amended: detect() returns an error only when entering raw mode fails,
\* when writing the burst fails, or when the multiplexer drain after the read
\* fails; the first two before any byte is read, the third only inside a
\* multiplexer.  However the read ended (terminator, timeout, EOF, I/O
\* failure) and whatever bytes it captured, a detect() that returns after a
\* drain that succeeded returns the snapshot parsed from those bytes.
ErrorOnlyFromRawModeWriteOrDrain ==
    pc = "done" =>
        /\ result.tag \in {"Ok", "ErrRaw", "ErrWrite", "ErrDrain"}
        /\ result.tag \in {"ErrRaw", "ErrWrite"} <=> rpc = "idle"
        /\ result.tag = "ErrRaw" => out = <<>>
        /\ result.tag = "ErrDrain" => (tmux /\ rpc = "returned")
        /\ result.tag = "Ok" =>
              /\ rpc = "returned" /\ resp = from_utf8_lossy(buf)
              /\ result.kind = Kind(resp, resort)
              /\ result.cell_size = cell_size(resp)

DrainErrorAfterCompleteRead ==
    pc = "done" /\ result.tag = "ErrDrain" /\ readRes = "ok" /\ buf = KgpReply \o Da1Reply

\* the order of the steps of detect()
StepOrder ==
    { <<"start", "probe">>, <<"start", "done">>, <<"probe", "read">>, <<"probe", "done">>,
      <<"read", "drain">>, <<"drain", "parse">>, <<"drain", "done">>, <<"parse", "done">>,
      <<"parse", "panicked">> }

\* the burst in the order of the claim
BurstInOrder ==
    /\ Len(out) >= (IF resort = "None" THEN 7 ELSE 6)
    /\ SubSeq(Written, 1, IF resort = "None" THEN 7 ELSE 6) =
          <<"SavePosition">> \o (IF resort = "None" THEN <<KgpProbe>> ELSE <<>>)
          \o <<"ESC[>q", "ESC[16t", "ESC]11;?BEL", "ESC[0c", "RestorePosition">>

\* C19: detect() enters raw mode, writes the burst (save-cursor, optional
\* pixel-graphics probe, version, cell-size, background-colour and, last,
\* primary-device-attributes query, restore-cursor), reads until the DA1
\* terminator, drains the multiplexer and parses, in this order and never
\* out of it; no input byte is read before the whole burst is written, and
\* raw mode stays enabled from before the first byte of the burst until after
\* the drain.
StepsInOrder ==
    /\ [][pc' # pc => <<pc, pc'>> \in StepOrder]_vars
    /\ [][(rawMode /\ ~rawMode') => (pc \in {"probe", "drain", "parse"}
                                       /\ pc' \in {"done", "panicked"})]_vars
    /\ [][out' # out => (rawMode \/ wd \in {"emitting"})]_vars
    /\ [](pc \in {"probe", "read", "drain", "parse"} => rawMode)
    /\ [](pc \in {"start", "probe"} => (rpc = "idle" /\ buf = <<>> /\ rdbuf = <<>>))
    /\ [](rpc # "idle" => BurstInOrder)
    /\ [](pc = "read" <=> rpc \in {"idle", "reading", "ended"} /\ BurstWritten)
    /\ [](pc \in {"drain", "parse"} => rpc = "returned")
    /\ [](result.tag = "Ok" => (pc = "done" /\ rpc = "returned" /\ BurstInOrder))

AllStepsDone ==
    /\ pc = "done" /\ result.tag = "Ok" /\ resort = "None" /\ readRes = "ok"
    /\ Len(out) = 7 /\ ~rawMode

----------------------------------------------------------------------------
(* Properties of read_until_da1(), under SpecRead and SpecReadFair         *)

\* C4: whatever the peer does (it may never send, or send bytes that never
\* complete a terminator until the deadline), read_until_da1() returns, and
\* the await of the read is over no later than 2000 ms after the call.
ReadReturnsByDeadline ==
    /\ <>(rpc = "returned")
    /\ [](rpc \in {"ended", "returned"} => readEnd <= Deadline)

SilentPeerTimedOut ==
    /\ rpc = "returned" /\ readRes = "elapsed" /\ readEnd = Deadline
    /\ buf = <<>> /\ ending = "silent"

\* the terminator as the claim words it, on the first n bytes of b: byte n is
\* 'c', some earlier byte is ESC, and the bytes after the last ESC begin "[?"
TerminatedAt(b, n) ==
    /\ b[n] = "c"
    /\ \E i \in 1..n :
          /\ b[i] = "ESC"
          /\ \A j \in (i + 1)..n : b[j] # "ESC"
          /\ i + 2 <= n /\ b[i + 1] = "[" /\ b[i + 2] = "?"

\* C5, amended: the loop stops at the first byte that completes the
\* terminator, at no earlier byte, and pushes no later byte: a read that
\* resolves Ok(()) returns the shortest prefix of the input that ends a
\* terminator.  (Bytes that stood in standard input behind the terminator were
\* fetched by the BufReader with it and are dropped, not left unread.)
StopsAtFirstTerminator ==
    /\ \A n \in 1..(Len(buf) - 1) : ~TerminatedAt(buf, n)
    /\ (readRes = "ok") <=> (buf # <<>> /\ TerminatedAt(buf, Len(buf)))
    /\ (rpc = "returned" /\ readRes = "ok") => resp = buf

\* C5 as claimed: the same, and no byte behind the terminator was consumed
\* from standard input.
StopsAndConsumesNothingMore ==
    /\ StopsAtFirstTerminator
    /\ readRes = "ok" => rdbuf = <<>>

TerminatorThenDroppedByte ==
    rpc = "returned" /\ readRes = "ok" /\ buf = Da1Reply /\ rdbuf = <<"x">>

NoDiagnosticAfterReturn ==
    [][rpc = "returned" => diag' = diag]_vars

\* the part of C17 that the code keeps: a watchdog that h.abort() found
\* asleep never emits
CancelledWatchdogStaysSilent ==
    [][wd = "cancelled" => (wd' = "cancelled" /\ diag' = diag)]_vars

----------------------------------------------------------------------------
(* The parse of detect() on its own: read_until_da1() has returned one of   *)
(* a family of buffers and the drain is over                                *)

DigitFields ==
    { <<>>, <<"0">>, <<"7">>, <<"1", "6">>, <<"0", "0", "7">>, <<"1", "x", "6">>,
      <<"6", "5", "5", "3", "5">>, <<"6", "5", "5", "3", "6">>, <<"9", "9", "9", "9", "9">> }

AfterHeight == { <<";">>, <<>>, <<"x", ";">>, <<"t">> }

AfterWidth == { <<"t">>, <<>>, <<"x", "t">>, <<";">> }

\* cell-size reports, well formed and not, alone or before the DA1 reply
CellBuffers ==
    { pre \o CellMarker \o h \o s1 \o w \o s2 \o suf :
        pre \in {<<>>, <<"ESC", "[", "x">>}, h \in DigitFields, s1 \in AfterHeight,
        w \in DigitFields, s2 \in AfterWidth, suf \in {<<>>, Da1Reply} }

FlagPieces ==
    { <<>>, KgpReply, SubSeq(KgpAck, 1, Len(KgpAck) - 1), XtVersion(Signatures[1][2]),
      XtVersion(Signatures[2][2]), XtVersion(<<"x", "x80">>) }

Da1Replies ==
    { <<>>, Da1Reply, Da1Sixel,
      <<"ESC", "[", "?", "4", "c">>,
      <<"ESC", "[", "?", "4", ";", "6", "c">>,
      <<"ESC", "[", "?", "6", "2", ";", "4", ";", "6", "c">>,
      <<"ESC", "[", "?", "6", "4", ";", "4", "4", "c">>,
      <<"ESC", "[", "?", "1", "4", ";", "6">> }

\* version and graphics replies before a DA1 reply
FlagBuffers == { a \o b \o d : a \in FlagPieces, b \in FlagPieces, d \in Da1Replies }

\* a buffer read_until_da1() can return: no byte follows a complete terminator
Returnable(b) == \A n \in 1..(Len(b) - 1) : ~Terminator(SubSeq(b, 1, n))

\* the four bytes of one channel of a background report
ChannelFields ==
    { <<"0", "0", "0", "0">>, <<"f", "f", "f", "f">>, <<"f", "f", "0", "0">>,
      <<"9", "9", "9", "9">>, <<"9", "A", "0", "0">>, <<"0", "8", "0", "8">>,
      <<"d", "d", "d", "d">>, <<"1", "c", "1", "c">>, <<"g", "0", "0", "0">>,
      <<"+", "f", "0", "0">>, <<"0", "x80", "0", "0">>, <<"f", "f", "0", "x80">> }

BgTails == { <<>>, <<"BEL">>, <<"x80">>, <<"ESC", "\\">> \o Da1Reply }

\* background reports ESC ]11;rgb:<r>/<g>/<b> with every mix of the fields
BgReports ==
    { <<"ESC">> \o BgPrefix \o r \o <<"/">> \o g \o <<"/">> \o b \o t :
        r \in ChannelFields, g \in ChannelFields, b \in ChannelFields, t \in BgTails }

\* reports that are too short, and a second report behind a first one
BgOddities ==
    { <<"ESC">> \o BgPrefix,
      <<"ESC">> \o BgPrefix \o <<"f", "f", "/", "f", "f", "/", "f", "f", "BEL">>,
      <<"ESC">> \o BgPrefix \o <<"f", "f", "f", "f", "/", "f", "f", "f", "f", "/", "f", "f", "f">>,
      <<"ESC">> \o BgPrefix \o <<"f", "f", "f", "f", "/", "x80", "x80">>,
      <<"ESC", "]", "1", "1", ";", "f", "f", "f", "f", "/", "f", "f", "f", "f", "/", "f", "f",
        "f", "f", "BEL">>,
      SubSeq(BgReply("0"), 1, 23) \o BgReply("f"),
      SubSeq(BgReply("f"), 1, 23) \o BgReply("0") }

BgBuffers == BgReports \cup BgOddities \cup {BgReply("f"), BgReply("x80")}

ParseBuffers ==
    {b \in CellBuffers \cup FlagBuffers \cup BgBuffers : Returnable(b)}

InitParse ==
    /\ pc = "parse"
    /\ rawMode = TRUE
    /\ released = 0
    /\ resort \in {"None"} \cup Brands
    /\ tmux = FALSE
    /\ out = Burst
    /\ input = <<>>
    /\ ending = "eof"
    /\ stdinQ = <<>> /\ rdbuf = <<>>
    /\ buf \in ParseBuffers
    /\ rpc = "returned"
    /\ readRes = IF Terminator(buf) THEN "ok" ELSE "failed"
    /\ readEnd = 0 /\ clock = 0
    /\ wd = "cancelled" /\ diag = 0
    /\ resp = from_utf8_lossy(buf)
    /\ result = NoSnapshot
    /\ MlIdle

ParseNext == Parse \/ ParsePanic

SpecParse == InitParse /\ [][ParseNext]_vars

----------------------------------------------------------------------------
(* Properties of the parse, under SpecParse                                *)

Returned == pc = "done" /\ result.tag = "Ok"

\* C7: the kind is the brand of the response signature when there is one,
\* else the brand pre-resolved from the environment when there is one, else
\* Unknown; a response signature wins over a different pre-resolved brand.
KindPrecedence ==
    Returned =>
        /\ from_csi(resp) # "None" => result.kind = Left(from_csi(resp))
        /\ (from_csi(resp) = "None" /\ resort # "None") => result.kind = Left(resort)
        /\ (from_csi(resp) = "None" /\ resort = "None") => result.kind.tag = "Right"

SignatureBeatsEnvironment ==
    /\ Returned /\ resort = "Foot" /\ Contains(buf, Signatures[1][2])
    /\ result.kind = Left("Kitty")

\* C8: with no brand recognised and none pre-resolved the kind is Unknown,
\* kgp is true iff the buffer contains ESC _Gi=31;OK, and sixel is true iff it
\* contains one of "?4;", "?4c", ";4;", ";4c"; the buffer
\* ESC _Gi=31;OK ESC \ ESC [?6c gives Unknown {kgp: true, sixel: false}.
UnknownFlags ==
    /\ (Returned /\ from_csi(resp) = "None" /\ resort = "None") =>
          /\ result.kind.tag = "Right" /\ result.kind.brand = "None"
          /\ result.kind.kgp <=>
                Contains(buf, <<"ESC", "_", "G", "i", "=", "3", "1", ";", "O", "K">>)
          /\ result.kind.sixel <=>
                \/ Contains(buf, <<"?", "4", ";">>) \/ Contains(buf, <<"?", "4", "c">>)
                \/ Contains(buf, <<";", "4", ";">>) \/ Contains(buf, <<";", "4", "c">>)
    /\ (Returned /\ resort = "None" /\ buf = KgpReply \o Da1Reply) =>
          result.kind = Right(TRUE, FALSE)

KgpAcknowledgedNoSixel ==
    /\ Returned /\ resort = "None" /\ buf = KgpReply \o Da1Reply
    /\ result.kind = Right(TRUE, FALSE)

\* the value of a run of digits, as an integer without a width
RECURSIVE DecimalValue(_)
DecimalValue(s) ==
    IF s = <<>> THEN 0
    ELSE 10 * DecimalValue(SubSeq(s, 1, Len(s) - 1)) + DigitVal(s[Len(s)])

\* what follows the first ESC[6; of the buffer
AfterMarker == Drop(buf, Find(buf, CellMarker) + Len(CellMarker))

\* b begins <hl digits> ;
HeightForm(b, hl) ==
    /\ Len(b) >= hl + 1
    /\ \A k \in 1..hl : b[k] \in Digits
    /\ b[hl + 1] = ";"

\* after <hl digits> ; b goes on <wl digits> t
WidthForm(b, hl, wl) ==
    /\ Len(b) >= hl + wl + 2
    /\ \A k \in (hl + 2)..(hl + 1 + wl) : b[k] \in Digits
    /\ b[hl + wl + 2] = "t"

\* b begins <hl digits> ; <wl digits> t
CellForm(b, hl, wl) == HeightForm(b, hl) /\ WidthForm(b, hl, wl)

HeightOf(b, hl) == DecimalValue(SubSeq(b, 1, hl))

WidthOf(b, hl, wl) == DecimalValue(SubSeq(b, hl + 2, hl + 1 + wl))

HasMarker == Returned /\ Contains(buf, CellMarker)

\* every report of the form <H> ; <W> t at the head of b satisfies P(H, W)
EveryReport(b, P(_, _)) ==
    \A hl \in 1..Len(b) : HeightForm(b, hl) =>
        \A wl \in 1..Len(b) : WidthForm(b, hl, wl) =>
            P(HeightOf(b, hl), WidthOf(b, hl, wl))

NoReport(b) ==
    ~\E hl \in 1..Len(b) : HeightForm(b, hl) /\ \E wl \in 1..Len(b) : WidthForm(b, hl, wl)

\* the part of C9 that both statements share: outside the form
\* ESC[6;<digits>;<digits>t (no ';' after the height digits, no 't' after the
\* width digits, a byte that is no digit inside a field, an empty field) the
\* cell size is absent
DeviationGivesNone ==
    (HasMarker /\ NoReport(AfterMarker)) => result.cell_size = NoCell

PositiveGivesSome(H, W) ==
    (H >= 1 /\ W >= 1) => result.cell_size = SomeCell(W, H)

\* C9 as claimed: every report ESC[6;<H>;<W>t with H, W positive integers
\* gives Some((W, H)), and every deviation None.
CellSizeOfEveryPositiveReport ==
    /\ DeviationGivesNone
    /\ HasMarker => EveryReport(AfterMarker, PositiveGivesSome)

U16GivesSome(H, W) ==
    /\ (H \in 1..U16Max /\ W \in 1..U16Max) => result.cell_size = SomeCell(W, H)
    /\ (H > U16Max \/ W > U16Max) => result.cell_size = NoCell

\* C9, amended: every report ESC[6;<H>;<W>t with H and W in 1..65535 (the
\* range of u16) gives Some((W, H)); a report with H or W above 65535 gives
\* None; and every deviation gives None.
CellSizeOfU16Report ==
    /\ DeviationGivesNone
    /\ HasMarker => EveryReport(AfterMarker, U16GivesSome)

CellSizeParsed ==
    /\ HasMarker /\ CellForm(AfterMarker, 1, 2)
    /\ result.cell_size = SomeCell(16, 7)

\* what follows the first "]11;rgb:" of the buffer
AfterBgPrefix == Drop(buf, Find(buf, BgPrefix) + Len(BgPrefix))

\* the two bytes at offset k of b are hex digits
HexField(b, k) == b[k + 1] \in HexDigits /\ b[k + 2] \in HexDigits

HexFieldValue(b, k) == 16 * HexVal(b[k + 1]) + HexVal(b[k + 2])

\* the parse has acted: detect() returned or was aborted
Parsed == pc \in {"done", "panicked"}

\* the cases in which C11 wants light = false
BackgroundUnusable ==
    \/ ~Contains(buf, BgPrefix)
    \/ Len(AfterBgPrefix) < BgMinLen
    \/ ~HexField(AfterBgPrefix, 0) \/ ~HexField(AfterBgPrefix, 5) \/ ~HexField(AfterBgPrefix, 10)

\* C11: for every captured buffer the background classification ends in a
\* boolean and detect() is never aborted by it; light is false when the buffer
\* has no "]11;rgb:", when fewer than 14 characters follow it, or when one of
\* the three channel fields is not two hex digits.
BackgroundNeverAborts ==
    Parsed =>
        /\ pc = "done" /\ result.tag = "Ok"
        /\ BackgroundUnusable => result.light = FALSE

\* the part of C11 that the code keeps: a buffer without the prefix, or with
\* fewer than 14 bytes behind it, gives light = false with no abort
BackgroundAbsentIsDark ==
    (Parsed /\ (~Contains(resp, BgPrefix)
                 \/ Len(Drop(resp, Find(resp, BgPrefix) + Len(BgPrefix))) < BgMinLen)) =>
        (Returned /\ result.light = FALSE)

\* the premise of C12: at least 14 characters after the first "]11;rgb:" and
\* two hex digits at offsets 0, 5 and 10 of them
LumaPremise ==
    /\ Contains(buf, BgPrefix)
    /\ Len(AfterBgPrefix) >= BgMinLen
    /\ HexField(AfterBgPrefix, 0) /\ HexField(AfterBgPrefix, 5) /\ HexField(AfterBgPrefix, 10)

\* R * 0.2627 / 256 + G * 0.6780 / 256 + B * 0.0593 / 256 > 0.6 of the fields
\* of the buffer
LumaOfBuffer ==
    2627 * HexFieldValue(AfterBgPrefix, 0) + 6780 * HexFieldValue(AfterBgPrefix, 5)
    + 593 * HexFieldValue(AfterBgPrefix, 10) > 1536000

\* C12: for every buffer with at least 14 characters after the first
\* "]11;rgb:" and two hex digits R, G, B at offsets 0, 5 and 10, light is true
\* iff R*0.2627/256 + G*0.6780/256 + B*0.0593/256 > 0.6.
LightIffLuma ==
    (Parsed /\ LumaPremise) => (Returned /\ (result.light <=> LumaOfBuffer))

\* the part of C12 that the code keeps: whenever detect() returns, light is
\* that comparison
LightIffLumaWhenReturned ==
    (Returned /\ LumaPremise) => (result.light <=> LumaOfBuffer)

----------------------------------------------------------------------------
(* Properties of read_until_dsr(), under SpecDsr                           *)

\* the first n bytes of b end with ESC[0n or ESC[3n
ReportEndsAt(b, n) ==
    /\ n >= 4
    /\ b[n - 3] = "ESC" /\ b[n - 2] = "[" /\ b[n - 1] \in {"0", "3"} /\ b[n] = "n"

\* C16, amended: read_until_dsr stops at the first byte after which the
\* buffer ends with ESC[0n or ESC[3n, at no earlier byte, and pushes no byte
\* after it; on timeout (500 ms), EOF or I/O failure it returns the bytes
\* pushed so far as a String, with no error; it spawns no watchdog and emits
\* no diagnostic.  (Bytes that stood in standard input behind the report were
\* fetched by the BufReader with it and are dropped, not left unread.)
DsrStopsAtFirstReport ==
    /\ \A n \in 1..(Len(buf) - 1) : ~ReportEndsAt(buf, n)
    /\ (readRes = "ok") <=> (buf # <<>> /\ ReportEndsAt(buf, Len(buf)))
    /\ rpc = "dsr_returned" => resp = from_utf8_lossy(buf)
    /\ readRes = "elapsed" => readEnd = DsrDeadline
    /\ readEnd <= DsrDeadline
    /\ diag = 0 /\ wd = "none" /\ out = <<>>

\* C16 as claimed: the same, and no byte behind the report was consumed from
\* standard input.
DsrStopsAndConsumesNothingMore ==
    /\ DsrStopsAtFirstReport
    /\ readRes = "ok" => rdbuf = <<>>

FaultReportThenDroppedBytes ==
    rpc = "dsr_returned" /\ readRes = "ok" /\ buf = DsrFault /\ rdbuf = DsrOk

DsrTimedOutWithPartialBytes ==
    rpc = "dsr_returned" /\ readRes = "elapsed" /\ buf = <<"ESC", "[", "0">>
    /\ resp = buf

----------------------------------------------------------------------------
(* Properties of move_lock(), under SpecMove                               *)

\* C15 as claimed: on both paths the writer is flushed exactly once, after
\* the callback has run, whether the callback succeeded or failed, and
\* move_lock() then returns the result of the callback.
FlushedExactlyOnce ==
    /\ flushes > 0 => cbres # "none"
    /\ mpc = "done" => (flushes = 1 /\ cbres # "none" /\ mres = cbres)

\* C15, amended: in a call whose writes succeed the writer is flushed exactly
\* once after the callback has run, whether the callback returned success or
\* failure, and move_lock() then returns the result of the callback.  On the
\* plain path that is the only flush; on the defensive path each of the three
\* execute! before the callback has flushed the writer too.  No flush follows
\* a write that failed, and move_lock() then returns the error of the write.
FlushedOnceAfterCallback ==
    /\ flushes = forced + (IF mpc = "done" /\ mres # "ErrWrite" THEN 1 ELSE 0)
    /\ forced = (IF Defensive /\ cbres # "none" THEN Forcings ELSE forced)
    /\ ~Defensive => forced = 0
    /\ cbres = "none" => mres \in {"none", "ErrWrite"}
    /\ (mpc = "done" /\ mres # "ErrWrite") => (cbres \in {"Ok", "Err"} /\ mres = cbres)
    /\ (mpc = "done" /\ mres # "ErrWrite") => wbuf = <<>>

FlushedAfterFailedCallback ==
    /\ mpc = "done" /\ ~Defensive /\ cbres = "Err" /\ mres = "Err" /\ flushes = 1
    /\ Len(term) = 4

\* the names of the commands that have reached the terminal
Names == [i \in 1..Len(term) |-> term[i].cmd]

CountOf(name, from, to) == Cardinality({i \in from..to : term[i].cmd = name})

\* move_lock() has returned and no write failed
MovedOk == mpc = "done" /\ mres \in {"Ok", "Err"}

\* what C20 and its amendment share: one SavePosition, the first command,
\* before the callback; one RestorePosition, the last command, after it, also
\* when the callback fails; on the defensive path MoveTo(x, y) three times
\* before the callback and Hide just before the restore; on the plain path
\* one MoveTo(x, y) before the callback and only the restore after it.
SaveMoveRestore ==
    MovedOk =>
        /\ CountOf("SavePosition", 1, Len(term)) = 1 /\ term[1].cmd = "SavePosition"
        /\ CountOf("RestorePosition", 1, Len(term)) = 1
        /\ term[Len(term)].cmd = "RestorePosition"
        /\ cbAt < Len(term)
        /\ \A i \in 1..Len(term) : term[i].cmd = "MoveTo" => (term[i] = MoveTo(pos) /\ i <= cbAt)
        /\ \A i \in 1..cbAt : term[i].cmd # "data"
        /\ Defensive =>
              /\ SubSeq(Names, 1, cbAt) =
                    <<"SavePosition", "MoveTo", "Show", "MoveTo", "Show", "MoveTo", "Show">>
              /\ \A i \in (cbAt + 1)..Len(term) :
                    term[i].cmd \in {"data", "Hide", "RestorePosition"}
              /\ SubSeq(Names, Len(term) - 1, Len(term)) = <<"Hide", "RestorePosition">>
        /\ ~Defensive =>
              /\ SubSeq(Names, 1, cbAt) = <<"SavePosition", "MoveTo">>
              /\ \A i \in (cbAt + 1)..Len(term) : term[i].cmd \in {"data", "RestorePosition"}
              /\ CountOf("Show", 1, Len(term)) = 0 /\ CountOf("Hide", 1, Len(term)) = 0

\* C20 as claimed: ... and on the defensive path the cursor is shown again
\* after the restore, so that it is visible when move_lock() returns.
CursorVisibleOnReturn ==
    /\ SaveMoveRestore
    /\ (MovedOk /\ Defensive) => cursor = "shown"

\* C20, amended: ... on the defensive path each of the three forcings also
\* shows the cursor, which is visible while the callback runs; after the
\* callback the cursor is hidden and the position restored, and nothing shows
\* it again, so the cursor is hidden when move_lock() returns.  On the plain
\* path the visibility of the cursor is not touched.
CursorHiddenOnDefensiveReturn ==
    /\ SaveMoveRestore
    /\ (Defensive /\ mpc \in {"cb", "restore", "flush"}) => cursor = "shown"
    /\ (MovedOk /\ Defensive) => cursor = "hidden"
    /\ (~Defensive /\ mres # "ErrWrite") => CountOf("Show", 1, Len(term)) = 0

DefensiveReturnAfterFailedCallback ==
    /\ MovedOk /\ tmux /\ cbres = "Err" /\ cursor = "hidden"
    /\ CountOf("MoveTo", 1, Len(term)) = 3 /\ CountOf("data", 1, Len(term)) = 1

----------------------------------------------------------------------------
(* Properties of the snapshot, under Spec                                  *)

\* C10: in every snapshot detect() returns, a cell size that is present has
\* width > 0 and height > 0.
CellSizePositive ==
    (Returned /\ result.cell_size.some) =>
        (result.cell_size.w > 0 /\ result.cell_size.h > 0)

====
